---- MODULE Spec2Model ----
(***************************************************************************)
(* Drag-and-drop transcriber: the transcription-to-artifact pipeline of    *)
(* gui_transcribe.py (timestamp formatter, artifact writer, summarizer,    *)
(* prompt library, pipeline orchestrator).                                 *)
(*                                                                         *)
(* Text is modelled as a sequence of one-character strings, so that        *)
(* trimming, joining, searching and replacing are computed character by    *)
(* character.  A number of seconds is an exact multiple of 1/TicksPerMs    *)
(* of a millisecond.                                                       *)
(***************************************************************************)
EXTENDS Integers, Sequences, FiniteSets, TLC

VARIABLES
    \* seconds_to_srt_timestamp: two arguments and the two strings returned
    tsSeconds, tsResult,
    \* write_transcription_outputs: the record given and the files written
    wTranscription, wFiles,
    \* summarize_transcript: its arguments, the request sent to the completion
    \* collaborator and what the call gave back
    sTemplate, sTranscript, sRequest, sReturn,
    \* the prompt store prompts.json and the callers of on_prompt_save: where
    \* each is, its arguments, its local dict, the message it returned
    promptsFile, lpc, lName, lText, lPrompts, lStatus,
    \* history: the library as it loaded when the call began, the last
    \* save_prompt write, the calls begun so far
    lBefore, lastWrite, lCalls,
    \* transcribe_file: where the run is, its arguments and the credential
    pc, file_path, api_key, summarize, prompt_template,
    \* its locals and what it returned or raised
    base_name, transcription, summary_text, summary_path, result, error,
    \* the out/ directory and the clock timestamped_basename reads
    disk, clock,
    \* history of the run: the step that failed, the steps entered, the files
    \* written, the collaborator calls made, the disk when it began, runs begun
    failedAt, steps, written, transcribeCalls, completeCalls, diskBefore, runs

tsVars == <<tsSeconds, tsResult>>
wVars == <<wTranscription, wFiles>>
sVars == <<sTemplate, sTranscript, sRequest, sReturn>>
lVars == <<promptsFile, lpc, lName, lText, lPrompts, lStatus, lBefore, lastWrite, lCalls>>
rVars ==
    <<pc, file_path, api_key, summarize, prompt_template, base_name, transcription,
      summary_text, summary_path, result, error, disk, clock, failedAt, steps, written,
      transcribeCalls, completeCalls, diskBefore, runs>>
vars == <<tsVars, wVars, sVars, lVars, rVars>>

\* Each component leaves the others' state alone.
TsFrame == UNCHANGED <<wVars, sVars, lVars, rVars>>
WFrame == UNCHANGED <<tsVars, sVars, lVars, rVars>>
SFrame == UNCHANGED <<tsVars, wVars, lVars, rVars>>
LFrame == UNCHANGED <<tsVars, wVars, sVars, rVars>>
RFrame == UNCHANGED <<tsVars, wVars, sVars, lVars>>

\* The value of a variable that holds nothing yet (Python None, no file).  A
\* value that may be None is a record otherwise (a list is [items |-> <<...>>]).
None == [kind |-> "None"]

(***************************************************************************)
(* Text helpers (Python str methods)                                       *)
(***************************************************************************)
NL == "\n"

\* str.isspace() for one character
IsSpace(c) == c \in {" ", "\n", "\t"}

RECURSIVE LStrip(_)
LStrip(s) == IF s # <<>> /\ IsSpace(Head(s)) THEN LStrip(Tail(s)) ELSE s

RECURSIVE RStrip(_)
RStrip(s) ==
    IF s # <<>> /\ IsSpace(s[Len(s)]) THEN RStrip(SubSeq(s, 1, Len(s) - 1)) ELSE s

\* str.strip()
Strip(s) == RStrip(LStrip(s))

\* sep.join(lines)
RECURSIVE Join(_, _)
Join(sep, lines) ==
    IF lines = <<>> THEN <<>>
    ELSE IF Len(lines) = 1 THEN lines[1]
    ELSE lines[1] \o sep \o Join(sep, Tail(lines))

DigitChars == <<"0", "1", "2", "3", "4", "5", "6", "7", "8", "9">>

\* str(n) for an integer n >= 0
RECURSIVE IntToStr(_)
IntToStr(n) ==
    IF n < 10 THEN <<DigitChars[n + 1]>>
    ELSE IntToStr(n \div 10) \o <<DigitChars[(n % 10) + 1]>>

\* format(n, "0<width>"): zero-padded to at least width characters
RECURSIVE ZeroPad(_, _)
ZeroPad(s, width) == IF Len(s) >= width THEN s ELSE ZeroPad(<<"0">> \o s, width)

(***************************************************************************)
(* seconds_to_srt_timestamp                                                *)
(***************************************************************************)
\* Resolution of the modelled seconds: ticks per millisecond.
TicksPerMs == 4

MsPerHour == 3600000
MsPerMinute == 60000
MsPerSecond == 1000

\* int(seconds * 1000): the fraction dropped.
RoundDown(ticks) == ticks \div TicksPerMs

\* round(seconds * 1000): to the nearest integer, a tie to the even one
Round(ticks) ==
    LET lo == ticks \div TicksPerMs
        rem == ticks % TicksPerMs
    IN  IF 2 * rem < TicksPerMs THEN lo
        ELSE IF 2 * rem > TicksPerMs THEN lo + 1
        ELSE IF lo % 2 = 0 THEN lo ELSE lo + 1

seconds_to_srt_timestamp(seconds) ==
    LET millis0 == Round(seconds)
        hours == millis0 \div MsPerHour
        remainder1 == millis0 % MsPerHour
        minutes == remainder1 \div MsPerMinute
        remainder2 == remainder1 % MsPerMinute
        secs == remainder2 \div MsPerSecond
        millis == remainder2 % MsPerSecond
    IN  ZeroPad(IntToStr(hours), 2) \o <<":">> \o ZeroPad(IntToStr(minutes), 2)
        \o <<":">> \o ZeroPad(IntToStr(secs), 2) \o <<",">>
        \o ZeroPad(IntToStr(millis), 3)

\* Arguments tried: TsWindow ticks on either side of each of these instants.
TsWindow == 3
TsAnchors ==
    { 0, TicksPerMs * MsPerSecond, TicksPerMs * MsPerMinute, TicksPerMs * MsPerHour,
      TicksPerMs * 100 * MsPerHour, TicksPerMs * 4250 }
TsInputs ==
    { t \in UNION { (a - TsWindow)..(a + TsWindow) : a \in TsAnchors } : t >= 0 }

TsInit ==
    /\ tsSeconds \in TsInputs \X TsInputs
    /\ tsResult = None

TsIdle ==
    /\ tsSeconds = <<0, 0>>
    /\ tsResult = None

\* The formatter applied to both arguments.
FormatTimestamps ==
    /\ tsResult = None
    /\ tsResult' = [first |-> seconds_to_srt_timestamp(tsSeconds[1]),
                     second |-> seconds_to_srt_timestamp(tsSeconds[2])]
    /\ UNCHANGED tsSeconds
    /\ TsFrame

\* The fields of a timestamp, read back: the text between the separators.
RECURSIVE Split(_, _)
Split(s, seps) ==
    IF \E i \in 1..Len(s) : s[i] \in seps
    THEN LET i == CHOOSE k \in 1..Len(s) :
                      s[k] \in seps /\ \A j \in 1..(k - 1) : s[j] \notin seps
         IN  <<SubSeq(s, 1, i - 1)>> \o Split(SubSeq(s, i + 1, Len(s)), seps)
    ELSE <<s>>

IsDigits(s) == \A i \in 1..Len(s) : \E d \in 1..10 : DigitChars[d] = s[i]

RECURSIVE StrToInt(_)
StrToInt(s) ==
    IF s = <<>> THEN 0
    ELSE 10 * StrToInt(SubSeq(s, 1, Len(s) - 1))
         + ((CHOOSE d \in 1..10 : DigitChars[d] = s[Len(s)]) - 1)

\* The millisecond count a caption timestamp denotes (-1: not a timestamp).
ParseTimestamp(s) ==
    LET f == Split(s, {":", ","})
    IN  IF Len(f) = 4 /\ \A i \in 1..4 : f[i] # <<>> /\ IsDigits(f[i])
        THEN ((StrToInt(f[1]) * 60 + StrToInt(f[2])) * 60 + StrToInt(f[3])) * 1000
             + StrToInt(f[4])
        ELSE -1

\* HH:MM:SS,mmm at fixed width: twelve characters, separators in place.
IsFixedWidthTimestamp(s) ==
    /\ Len(s) = 12
    /\ s[3] = ":" /\ s[6] = ":" /\ s[9] = ","
    /\ IsDigits(SubSeq(s, 1, 2)) /\ IsDigits(SubSeq(s, 4, 5))
    /\ IsDigits(SubSeq(s, 7, 8)) /\ IsDigits(SubSeq(s, 10, 12))
    /\ StrToInt(SubSeq(s, 4, 5)) <= 59 /\ StrToInt(SubSeq(s, 7, 8)) <= 59

\* H..H:MM:SS,mmm: hours zero-padded to two digits and wider when they need it.
IsTimestamp(s) ==
    LET f == Split(s, {":", ","})
    IN  /\ Len(f) = 4
        /\ \A i \in 1..4 : IsDigits(f[i])
        /\ Len(f[1]) >= 2 /\ Len(f[2]) = 2 /\ Len(f[3]) = 2 /\ Len(f[4]) = 3
        /\ Len(f[1]) > 2 => f[1][1] # "0"
        /\ StrToInt(f[2]) <= 59 /\ StrToInt(f[3]) <= 59
        /\ s[Len(f[1]) + 1] = ":" /\ s[Len(f[1]) + 4] = ":" /\ s[Len(f[1]) + 7] = ","

\* m is s rounded to the nearest millisecond (either neighbour on a tie).
IsNearestMs(m, ticks) ==
    /\ 2 * (TicksPerMs * m - ticks) <= TicksPerMs
    /\ 2 * (ticks - TicksPerMs * m) <= TicksPerMs

\* C8 as stated: for every s >= 0 the result has the fixed-width form
\* HH:MM:SS,mmm, parses back to s rounded to the nearest millisecond, and
\* does not decrease when s increases.
C8_FixedWidth ==
    tsResult # None =>
        /\ IsFixedWidthTimestamp(tsResult.first)
        /\ IsFixedWidthTimestamp(tsResult.second)
        /\ IsNearestMs(ParseTimestamp(tsResult.first), tsSeconds[1])
        /\ IsNearestMs(ParseTimestamp(tsResult.second), tsSeconds[2])
        /\ tsSeconds[1] <= tsSeconds[2] =>
               ParseTimestamp(tsResult.first) <= ParseTimestamp(tsResult.second)

\* C8 amended: for every s >= 0 the result has the form H..H:MM:SS,mmm with
\* two-digit minutes and seconds in 00..59 and three-digit milliseconds; the
\* hours are zero-padded to two digits and take three or more digits from 100
\* hours on (twelve characters exactly below 100 hours, never wrapping); it
\* parses back to s rounded to the nearest millisecond; and the millisecond
\* count it denotes does not decrease when s increases.
C8_Timestamp ==
    tsResult # None =>
        /\ IsTimestamp(tsResult.first)
        /\ IsTimestamp(tsResult.second)
        /\ IsNearestMs(ParseTimestamp(tsResult.first), tsSeconds[1])
        /\ IsNearestMs(ParseTimestamp(tsResult.second), tsSeconds[2])
        /\ Len(tsResult.first) = 12 <=> ParseTimestamp(tsResult.first) < 100 * MsPerHour
        /\ Len(tsResult.second) = 12 <=> ParseTimestamp(tsResult.second) < 100 * MsPerHour
        /\ tsSeconds[1] <= tsSeconds[2] =>
               ParseTimestamp(tsResult.first) <= ParseTimestamp(tsResult.second)

\* C8 witness: a time off the millisecond grid below 100 hours and one past
\* 100 hours have both been formatted.
C8_Witness ==
    /\ tsResult # None
    /\ tsSeconds[1] % TicksPerMs # 0
    /\ Len(tsResult.first) = 12
    /\ Len(tsResult.second) = 13

(***************************************************************************)
(* write_transcription_outputs                                             *)
(***************************************************************************)
Arrow == <<" ", "-", "-", ">", " ">>

\* transcription.get("segments") or []
SegmentsOf(record) ==
    IF record.segments = None THEN <<>> ELSE record.segments.items

\* One pass of the loop over enumerate(segments, start=1), from position idx.
RECURSIVE SrtLinesFrom(_, _)
SrtLinesFrom(segments, idx) ==
    IF idx > Len(segments) THEN <<>>
    ELSE LET segment == segments[idx]
             start_ts == seconds_to_srt_timestamp(segment.start)
             end_ts == seconds_to_srt_timestamp(segment.end)
             text == Strip(segment.text)
         IN  (IF text = <<>> THEN <<>>
              ELSE <<IntToStr(idx), start_ts \o Arrow \o end_ts, text, <<>>>>)
             \o SrtLinesFrom(segments, idx + 1)

\* The loop with the index counting the captions emitted so far.
RECURSIVE SrtLinesRenumbered(_, _, _)
SrtLinesRenumbered(segments, idx, emitted) ==
    IF idx > Len(segments) THEN <<>>
    ELSE LET segment == segments[idx]
             start_ts == seconds_to_srt_timestamp(segment.start)
             end_ts == seconds_to_srt_timestamp(segment.end)
             text == Strip(segment.text)
         IN  IF text = <<>> THEN SrtLinesRenumbered(segments, idx + 1, emitted)
             ELSE <<IntToStr(emitted + 1), start_ts \o Arrow \o end_ts, text, <<>>>>
                  \o SrtLinesRenumbered(segments, idx + 1, emitted + 1)

SrtLinesRenumbering(segments) == SrtLinesRenumbered(segments, 1, 0)
SrtLines(segments) == SrtLinesFrom(segments, 1)

\* The caption file's content.
SrtContent(record) ==
    LET srt_lines == SrtLines(SegmentsOf(record))
        srt_body == Strip(Join(<<NL>>, srt_lines))
    IN  IF srt_body # <<>> THEN srt_body \o <<NL>> ELSE <<>>

\* The transcript file's content and the text returned.
TranscriptText(record) == Strip(record.text)
TxtContent(record) == TranscriptText(record) \o <<NL>>

\* The raw-record file: the whole record, serialized.
JsonContent(record) == [kind |-> "json", value |-> record]

\* Texts a segment can carry.
Hello == <<"H", "e", "l", "l", "o">>
World == <<" ", "W", "o", "r", "l", "d", " ">>
SegTexts == { Hello, World, <<>>, <<" ", " ">> }

\* (start, end) pairs of a segment, in seconds.
SegTimes ==
    { <<0, TicksPerMs * 1500>>, <<TicksPerMs * 1500, TicksPerMs * 1500>>,
      <<TicksPerMs * 3000, TicksPerMs * 4250>> }

Segments == [start : {t[1] : t \in SegTimes}, end : {t[2] : t \in SegTimes}, text : SegTexts]
SegmentChoices == { g \in Segments : <<g.start, g.end>> \in SegTimes }

MaxSegs == 3
SegmentLists == UNION { [1..n -> SegmentChoices] : n \in 0..MaxSegs }

WInit ==
    /\ wTranscription \in
           [text : {<<>>, Hello \o World},
            segments : [items : SegmentLists] \cup {None}]
    /\ wFiles = None

WIdle ==
    /\ wTranscription = None
    /\ wFiles = None

\* write_transcription_outputs with every write succeeding.
WriteTranscriptionOutputs ==
    /\ wFiles = None
    /\ wFiles' = [txt |-> TxtContent(wTranscription),
                  json |-> JsonContent(wTranscription),
                  srt |-> SrtContent(wTranscription)]
    /\ UNCHANGED wTranscription
    /\ WFrame

\* Positions (1-based, in the original list) of the segments with text.
RECURSIVE CaptionedFrom(_, _)
CaptionedFrom(segments, idx) ==
    IF idx > Len(segments) THEN <<>>
    ELSE (IF \E i \in 1..Len(segments[idx].text) : ~IsSpace(segments[idx].text[i])
          THEN <<idx>> ELSE <<>>)
         \o CaptionedFrom(segments, idx + 1)

\* C7: the caption file read back line by line: block k (four lines: index,
\* times, text, blank) carries the original 1-based position of the k-th
\* segment that has text, its times and its trimmed text; nothing is emitted
\* for a blank segment and nothing renumbered; with no text at all the file
\* is zero-length.
C7_CaptionIndex ==
    wFiles # None =>
        LET segments == SegmentsOf(wTranscription)
            captioned == CaptionedFrom(segments, 1)
            lines == Split(wFiles.srt, {NL})
        IN  IF captioned = <<>> THEN wFiles.srt = <<>>
            ELSE /\ Len(lines) = 4 * Len(captioned)
                 /\ \A k \in 1..Len(captioned) :
                     LET segment == segments[captioned[k]]
                     IN  /\ lines[4 * k - 3] # <<>>
                         /\ IsDigits(lines[4 * k - 3])
                         /\ StrToInt(lines[4 * k - 3]) = captioned[k]
                         /\ lines[4 * k - 2] =
                                seconds_to_srt_timestamp(segment.start) \o Arrow
                                \o seconds_to_srt_timestamp(segment.end)
                         /\ lines[4 * k - 1] # <<>>
                         /\ lines[4 * k - 1] = Strip(segment.text)
                         /\ lines[4 * k] = <<>>

\* C7 witness: Hello, a blank segment, World have been written as blocks 1 and 3.
C7_Witness ==
    /\ wFiles # None
    /\ Len(SegmentsOf(wTranscription)) = 3
    /\ SegmentsOf(wTranscription)[1].text = Hello
    /\ SegmentsOf(wTranscription)[2].text = <<>>
    /\ SegmentsOf(wTranscription)[3].text = World
    /\ Split(wFiles.srt, {NL})[1] = <<"1">>
    /\ Split(wFiles.srt, {NL})[5] = <<"3">>

(***************************************************************************)
(* summarize_transcript                                                    *)
(***************************************************************************)
SUMMARY_MODEL == "gpt-4o-mini"

\* The literal "{transcript}"
Placeholder == <<"{", "t", "r", "a", "n", "s", "c", "r", "i", "p", "t", "}">>

\* The literal "\n\nTranscript:\n"
TranscriptLabel ==
    <<NL, NL, "T", "r", "a", "n", "s", "c", "r", "i", "p", "t", ":", NL>>

\* old in s
Contains(s, old) ==
    \E i \in 1..(Len(s) - Len(old) + 1) : SubSeq(s, i, i + Len(old) - 1) = old

\* s.replace(old, new): every occurrence, left to right, without rescanning
RECURSIVE Replace(_, _, _)
Replace(s, old, new) ==
    IF Len(s) < Len(old) THEN s
    ELSE IF SubSeq(s, 1, Len(old)) = old
         THEN new \o Replace(SubSeq(s, Len(old) + 1, Len(s)), old, new)
         ELSE <<Head(s)>> \o Replace(Tail(s), old, new)

\* prompt_template or ""
TemplateText(template_arg) ==
    IF template_arg = None THEN <<>> ELSE template_arg.chars

\* The prompt with no fallback for a template that lacks the placeholder.
BuildPromptNoFallback(template_arg, transcript_text) ==
    Replace(TemplateText(template_arg), Placeholder, Strip(transcript_text))

\* The prompt summarize_transcript builds.
BuildPrompt(template_arg, transcript_text) ==
    LET template == TemplateText(template_arg)
        cleaned_transcript == Strip(transcript_text)
    IN  IF Contains(template, Placeholder)
        THEN Replace(template, Placeholder, cleaned_transcript)
        ELSE Strip(template) \o TranscriptLabel \o cleaned_transcript

\* Texts the completion collaborator can answer with.
OutputTexts == { <<>>, <<" ", "O", "k", NL>> }

\* Pieces a template is put together from, and the templates tried.
BrokenPlaceholder == SubSeq(Placeholder, 1, Len(Placeholder) - 1)
TemplatePieces == { Placeholder, BrokenPlaceholder, <<"S">>, <<" ">>, <<NL>> }
MaxPieces == 3
RECURSIVE Flatten(_)
Flatten(pieces) == IF pieces = <<>> THEN <<>> ELSE Head(pieces) \o Flatten(Tail(pieces))
TemplateTexts ==
    { Flatten(ps) : ps \in UNION { [1..n -> TemplatePieces] : n \in 0..MaxPieces } }
TranscriptTexts == { <<>>, <<" ", "H", "i", NL>>, <<"a">> \o Placeholder }

SInit ==
    /\ sTemplate \in [chars : TemplateTexts] \cup {None}
    /\ sTranscript \in [chars : TranscriptTexts]
    /\ sRequest = None
    /\ sReturn = None

SIdle ==
    /\ sTemplate = None
    /\ sTranscript = None
    /\ sRequest = None
    /\ sReturn = None

\* summarize_transcript, the collaborator answering.
SummarizeTranscript ==
    /\ sRequest = None
    /\ sRequest' = [model |-> SUMMARY_MODEL,
                    input |-> BuildPrompt(sTemplate, sTranscript.chars)]
    /\ \E output_text \in OutputTexts : sReturn' = [text |-> Strip(output_text)]
    /\ UNCHANGED <<sTemplate, sTranscript>>
    /\ SFrame

\* summarize_transcript, the collaborator raising: the error propagates.
SummarizeTranscriptRaises ==
    /\ sRequest = None
    /\ sRequest' = [model |-> SUMMARY_MODEL,
                    input |-> BuildPrompt(sTemplate, sTranscript.chars)]
    /\ sReturn' = [raised |-> "CollaboratorError"]
    /\ UNCHANGED <<sTemplate, sTranscript>>
    /\ SFrame

\* Where old starts in s.
Occurrences(s, old) ==
    { i \in 1..(Len(s) - Len(old) + 1) : SubSeq(s, i, i + Len(old) - 1) = old }

Min(S) == CHOOSE x \in S : \A y \in S : x <= y
Max(S) == CHOOSE x \in S : \A y \in S : x >= y

\* C9: the prompt sent contains the trimmed transcript in full; with the
\* placeholder in the template the template's text up to the first placeholder
\* is followed by the transcript, the transcript is followed by the template's
\* text after the last placeholder, and every placeholder has given way to one
\* copy of the transcript; without it the prompt is the trimmed template, the
\* label and the transcript.
C9_PromptHoldsTranscript ==
    sRequest # None =>
        LET template == TemplateText(sTemplate)
            transcript == Strip(sTranscript.chars)
            prompt == sRequest.input
            at == Occurrences(template, Placeholder)
            n == Len(Placeholder)
        IN  /\ Contains(prompt, transcript)
            /\ at # {} =>
                /\ SubSeq(prompt, 1, Min(at) - 1) = SubSeq(template, 1, Min(at) - 1)
                /\ SubSeq(prompt, Min(at), Min(at) + Len(transcript) - 1) = transcript
                /\ Len(prompt) = Len(template) + Cardinality(at) * (Len(transcript) - n)
                /\ LET rest == SubSeq(template, Max(at) + n, Len(template))
                   IN  SubSeq(prompt, Len(prompt) - Len(rest) - Len(transcript) + 1,
                              Len(prompt)) = transcript \o rest
            /\ at = {} =>
                /\ prompt = Strip(template) \o TranscriptLabel \o transcript
                /\ Len(prompt) = Len(Strip(template)) + Len(TranscriptLabel)
                                 + Len(transcript)

\* C9 witness: a template without the placeholder and a transcript with text
\* have gone to the collaborator.
C9_Witness ==
    /\ sRequest # None
    /\ sTemplate # None
    /\ Strip(sTemplate.chars) # <<>>
    /\ ~Contains(sTemplate.chars, Placeholder)
    /\ Strip(sTranscript.chars) # <<>>

(***************************************************************************)
(* Prompt library: ensure_prompt_library, save_prompt, on_prompt_save      *)
(***************************************************************************)
\* A JSON value of the store: a string, or a number a hand edit left there.
JsonString(chars) == [type |-> "string", text |-> chars]
JsonNumber(chars) == [type |-> "number", text |-> chars]

\* str(v)
Str(v) == JsonString(v.text)

\* {str(k): str(v) for k, v in data.items()}
StrDict(data) == [k \in DOMAIN data |-> Str(data[k])]

\* The four default templates, their instruction text cut down to a letter.
DEFAULT_PROMPTS ==
    [k \in {"General Summary", "LB Update (one line)", "Radiology Downtime (Ops)",
            "Land Listing Summary"} |->
        IF k = "General Summary" THEN JsonString(<<"G", NL>> \o Placeholder)
        ELSE IF k = "LB Update (one line)" THEN JsonString(<<"L", NL>> \o Placeholder)
        ELSE IF k = "Radiology Downtime (Ops)" THEN JsonString(<<"R", NL>> \o Placeholder)
        ELSE JsonString(<<"P", " ">> \o Placeholder)]

\* A store file holding data (json.dumps then write_text; json.load reads it back).
StoreFile(data) == [data |-> data]

\* What ensure_prompt_library returns for the store as it is.
LibraryView(file) ==
    IF file = None THEN StrDict(DEFAULT_PROMPTS) ELSE StrDict(file.data)

\* prompts.get(prompt_name, "")
load_prompt_text(file, prompt_name) ==
    IF prompt_name \in DOMAIN LibraryView(file)
    THEN LibraryView(file)[prompt_name].text ELSE <<>>

\* A write that holds the saved entry alone.
SavedDictEntryOnly(prompts, prompt_name, prompt_text) ==
    [k \in {prompt_name} |-> JsonString(prompt_text)]

\* A write that upserts into the store as it is at the time of the write.
SavedDictMerged(prompts, prompt_name, prompt_text) ==
    [k \in DOMAIN LibraryView(promptsFile) \cup {prompt_name} |->
        IF k = prompt_name THEN JsonString(prompt_text)
        ELSE LibraryView(promptsFile)[k]]

\* prompts[prompt_name] = prompt_text: the dict save_prompt writes.
SavedDict(prompts, prompt_name, prompt_text) ==
    [k \in DOMAIN prompts \cup {prompt_name} |->
        IF k = prompt_name THEN JsonString(prompt_text) ELSE prompts[k]]

Procs == {1, 2}
MaxSaves == 2

\* Names and texts the callers save, and the stores they can find.
SaveNames == {"", "General Summary", "Custom"}
SaveTexts == { <<" ">>, <<"N", "e", "w">>, <<"S", " ">> \o Placeholder }
StoredNames == {"General Summary", "Custom"}
StoredValues ==
    { JsonString(<<"O", "l", "d">>), DEFAULT_PROMPTS["General Summary"],
      JsonNumber(<<"7">>) }
InitialStores ==
    {None, StoreFile(DEFAULT_PROMPTS)}
    \cup { StoreFile(d) : d \in UNION { [S -> StoredValues] : S \in SUBSET StoredNames } }

LInit ==
    /\ promptsFile \in InitialStores
    /\ lpc = [p \in Procs |-> "idle"]
    /\ lName = [p \in Procs |-> ""]
    /\ lText = [p \in Procs |-> <<>>]
    /\ lPrompts = [p \in Procs |-> None]
    /\ lStatus = [p \in Procs |-> ""]
    /\ lBefore = [p \in Procs |-> None]
    /\ lastWrite = None
    /\ lCalls = 0

LIdle ==
    /\ promptsFile = None
    /\ lpc = [p \in Procs |-> "idle"]
    /\ lName = [p \in Procs |-> ""]
    /\ lText = [p \in Procs |-> <<>>]
    /\ lPrompts = [p \in Procs |-> None]
    /\ lStatus = [p \in Procs |-> ""]
    /\ lBefore = [p \in Procs |-> None]
    /\ lastWrite = None
    /\ lCalls = 0

\* on_prompt_save is called; an empty name or a blank text is turned away.
OnPromptSave(p) ==
    /\ lpc[p] \in {"idle", "done"}
    /\ lCalls < MaxSaves
    /\ \E prompt_name \in SaveNames, prompt_text \in SaveTexts :
        /\ lName' = [lName EXCEPT ![p] = prompt_name]
        /\ lText' = [lText EXCEPT ![p] = prompt_text]
        /\ IF prompt_name = ""
           THEN /\ lpc' = [lpc EXCEPT ![p] = "done"]
                /\ lStatus' = [lStatus EXCEPT ![p] = "no name"]
           ELSE IF Strip(prompt_text) = <<>>
           THEN /\ lpc' = [lpc EXCEPT ![p] = "done"]
                /\ lStatus' = [lStatus EXCEPT ![p] = "empty text"]
           ELSE /\ lpc' = [lpc EXCEPT ![p] = "exists"]
                /\ lStatus' = [lStatus EXCEPT ![p] = ""]
    /\ lBefore' = [lBefore EXCEPT ![p] = [view |-> LibraryView(promptsFile)]]
    /\ lCalls' = lCalls + 1
    /\ UNCHANGED <<promptsFile, lPrompts, lastWrite>>
    /\ LFrame

\* ensure_prompt_library: if not PROMPTS_PATH.exists()
EnsureExists(p) ==
    /\ lpc[p] = "exists"
    /\ lpc' = [lpc EXCEPT ![p] = IF promptsFile = None THEN "seed" ELSE "load"]
    /\ UNCHANGED <<promptsFile, lName, lText, lPrompts, lStatus, lBefore, lastWrite, lCalls>>
    /\ LFrame

\* ensure_prompt_library: the default store is written
EnsureSeed(p) ==
    /\ lpc[p] = "seed"
    /\ promptsFile' = StoreFile(DEFAULT_PROMPTS)
    /\ lpc' = [lpc EXCEPT ![p] = "load"]
    /\ UNCHANGED <<lName, lText, lPrompts, lStatus, lBefore, lastWrite, lCalls>>
    /\ LFrame

\* ensure_prompt_library: the store is read and returned
EnsureLoad(p) ==
    /\ lpc[p] = "load"
    /\ lPrompts' = [lPrompts EXCEPT ![p] = [dict |-> StrDict(promptsFile.data)]]
    /\ lpc' = [lpc EXCEPT ![p] = "write"]
    /\ UNCHANGED <<promptsFile, lName, lText, lStatus, lBefore, lastWrite, lCalls>>
    /\ LFrame

\* save_prompt: the entry is set and the whole dict written; on_prompt_save returns
SavePromptWrite(p) ==
    /\ lpc[p] = "write"
    /\ promptsFile' = StoreFile(SavedDict(lPrompts[p].dict, lName[p], lText[p]))
    /\ lastWrite' = [by |-> p, name |-> lName[p], text |-> lText[p]]
    /\ lpc' = [lpc EXCEPT ![p] = "done"]
    /\ lStatus' = [lStatus EXCEPT ![p] = "saved"]
    /\ UNCHANGED <<lName, lText, lPrompts, lBefore, lCalls>>
    /\ LFrame

\* C5: one caller at a time: after save_prompt(name, text) on a library that
\* held name, the library loads with the same names, text under name, and
\* under every other name the template it loaded with before the save.
C5_SaveChangesOneEntry ==
    \A p \in Procs :
        (lpc[p] = "done" /\ lStatus[p] = "saved" /\ lName[p] \in DOMAIN lBefore[p].view) =>
            LET after == LibraryView(promptsFile)
            IN  /\ DOMAIN after = DOMAIN lBefore[p].view
                /\ after[lName[p]] = JsonString(lText[p])
                /\ load_prompt_text(promptsFile, lName[p]) = lText[p]
                /\ \A other \in DOMAIN after \ {lName[p]} :
                       after[other] = lBefore[p].view[other]

\* C5 witness: an existing name was saved over in a store that holds another
\* entry, one whose value was not a string.
C5_Witness ==
    /\ lpc[1] = "done" /\ lStatus[1] = "saved"
    /\ lName[1] = "General Summary"
    /\ lBefore[1].view # LibraryView(promptsFile)
    /\ "General Summary" \in DOMAIN lBefore[1].view
    /\ "Custom" \in DOMAIN lBefore[1].view
    /\ lBefore[1].view["Custom"] = JsonString(<<"7">>)

Quiescent == \A p \in Procs : lpc[p] \in {"idle", "done"}

\* C6: callers interleaving, every call over: the store is exactly the dict of
\* the caller that wrote last (what it read, with its entry set), so it holds
\* that caller's entry.
C6_LastWriterWins ==
    (Quiescent /\ lastWrite # None) =>
        /\ promptsFile # None
        /\ DOMAIN promptsFile.data = DOMAIN lPrompts[lastWrite.by].dict \cup {lastWrite.name}
        /\ \A k \in DOMAIN promptsFile.data \ {lastWrite.name} :
               promptsFile.data[k] = lPrompts[lastWrite.by].dict[k]
        /\ lastWrite.name \in DOMAIN promptsFile.data
        /\ promptsFile.data[lastWrite.name] = JsonString(lastWrite.text)

\* C6 witness: two callers have saved under different names and the store
\* lacks the name the first of them to write saved.
C6_Witness ==
    /\ Quiescent
    /\ lStatus[1] = "saved" /\ lStatus[2] = "saved"
    /\ lName[1] # lName[2]
    /\ \E p \in Procs : lName[p] \notin DOMAIN promptsFile.data

(***************************************************************************)
(* transcribe_file                                                         *)
(***************************************************************************)
MaxRuns == 2
MaxClock == 1

\* OUT_DIR / f"{base_name}{suffix}"
OutPath(base, suffix) == [dir |-> "out", base |-> base, suffix |-> suffix]

\* A text file's content.
TextFile(chars) == [chars |-> chars]

\* The orchestrator's step a position of the code belongs to.
StepOf(at) ==
    CASE at \in {"WriteTxt", "WriteJson", "WriteSrt"} -> "WritingArtifacts"
      [] at \in {"Summarizing", "WriteSummary"} -> "Summarizing"
      [] at = "Returning" -> "Done"
      [] OTHER -> at

\* Arguments and answers tried.
FilePaths == { None, [stem |-> "talk", exists |-> TRUE], [stem |-> "talk", exists |-> FALSE] }
RunTemplates == { [chars |-> <<" ", NL>>], [chars |-> <<"S">>],
                  [chars |-> <<"S", " ">> \o Placeholder] }
RunTranscriptions ==
    { [text |-> <<>>, segments |-> None],
      [text |-> <<" ">> \o Hello \o World,
       segments |-> [items |->
           << [start |-> 0, end |-> TicksPerMs * 1500, text |-> Hello],
              [start |-> TicksPerMs * 1500, end |-> TicksPerMs * 1500, text |-> <<>>],
              [start |-> TicksPerMs * 3000, end |-> TicksPerMs * 4250, text |-> World] >>]] }

RInit ==
    /\ pc = "Idle"
    /\ file_path = None
    /\ api_key = FALSE
    /\ summarize = FALSE
    /\ prompt_template = [chars |-> <<>>]
    /\ base_name = None
    /\ transcription = None
    /\ summary_text = <<>>
    /\ summary_path = None
    /\ result = None
    /\ error = ""
    /\ disk = [f \in {} |-> None]
    /\ clock = 0
    /\ failedAt = ""
    /\ steps = <<>>
    /\ written = <<>>
    /\ transcribeCalls = 0
    /\ completeCalls = 0
    /\ diskBefore = [f \in {} |-> None]
    /\ runs = 0

RIdle == RInit

\* raise RuntimeError(message): the run is over, nothing is returned.
Raise(message) ==
    /\ pc' = "Failed"
    /\ error' = message
    /\ failedAt' = StepOf(pc)
    /\ result' = None

\* The run moves on to the code at `to`.
Goto(to) ==
    /\ pc' = to
    /\ steps' = IF StepOf(to) = StepOf(pc) THEN steps ELSE Append(steps, StepOf(to))

\* path.write_text(content)
WriteText(path, content) ==
    /\ disk' = [f \in DOMAIN disk \cup {path} |-> IF f = path THEN content ELSE disk[f]]
    /\ written' = Append(written, path)

\* transcribe_file is called (by the GUI handler or the CLI).
TranscribeFileCall ==
    /\ pc \in {"Idle", "Done", "Failed"}
    /\ runs < MaxRuns
    /\ file_path' \in FilePaths
    /\ api_key' \in BOOLEAN
    /\ summarize' \in BOOLEAN
    /\ prompt_template' \in RunTemplates
    /\ pc' = "Validating"
    /\ steps' = <<"Validating">>
    /\ base_name' = None
    /\ transcription' = None
    /\ summary_text' = <<>>
    /\ summary_path' = None
    /\ result' = None
    /\ error' = ""
    /\ failedAt' = ""
    /\ written' = <<>>
    /\ transcribeCalls' = 0
    /\ completeCalls' = 0
    /\ diskBefore' = disk
    /\ runs' = runs + 1
    /\ UNCHANGED <<disk, clock>>
    /\ RFrame

\* The checks with the one on the file's existence left out.
ValidateNoExistsCheck ==
    /\ pc = "Validating"
    /\ IF file_path = None THEN Raise("Please upload an audio file to transcribe.") /\ UNCHANGED steps
       ELSE IF ~api_key
       THEN Raise("OPENAI_API_KEY environment variable is not set.") /\ UNCHANGED steps
       ELSE Goto("Transcribing") /\ UNCHANGED <<error, failedAt, result>>
    /\ UNCHANGED <<file_path, api_key, summarize, prompt_template, base_name, transcription,
                   summary_text, summary_path, disk, clock, written, transcribeCalls,
                   completeCalls, diskBefore, runs>>
    /\ RFrame

\* The checks with the one on the prompt made here, before transcribing.
ValidateChecksPrompt ==
    /\ pc = "Validating"
    /\ IF file_path = None THEN Raise("Please upload an audio file to transcribe.") /\ UNCHANGED steps
       ELSE IF ~api_key
       THEN Raise("OPENAI_API_KEY environment variable is not set.") /\ UNCHANGED steps
       ELSE IF ~file_path.exists
       THEN Raise("Uploaded file is unavailable. Please try again.") /\ UNCHANGED steps
       ELSE IF summarize /\ Strip(prompt_template.chars) = <<>>
       THEN Raise("Selected prompt is empty.") /\ UNCHANGED steps
       ELSE Goto("Transcribing") /\ UNCHANGED <<error, failedAt, result>>
    /\ UNCHANGED <<file_path, api_key, summarize, prompt_template, base_name, transcription,
                   summary_text, summary_path, disk, clock, written, transcribeCalls,
                   completeCalls, diskBefore, runs>>
    /\ RFrame

\* The checks transcribe_file opens with: a path, the credential, the file.
Validate ==
    /\ pc = "Validating"
    /\ IF file_path = None THEN Raise("Please upload an audio file to transcribe.") /\ UNCHANGED steps
       ELSE IF ~api_key
       THEN Raise("OPENAI_API_KEY environment variable is not set.") /\ UNCHANGED steps
       ELSE IF ~file_path.exists
       THEN Raise("Uploaded file is unavailable. Please try again.") /\ UNCHANGED steps
       ELSE Goto("Transcribing") /\ UNCHANGED <<error, failedAt, result>>
    /\ UNCHANGED <<file_path, api_key, summarize, prompt_template, base_name, transcription,
                   summary_text, summary_path, disk, clock, written, transcribeCalls,
                   completeCalls, diskBefore, runs>>
    /\ RFrame

\* timestamped_basename, then the audio file cannot be opened: no call is made.
OpenRaises ==
    /\ pc = "Transcribing"
    /\ \E now \in clock..MaxClock :
        /\ clock' = now
        /\ base_name' = [stem |-> file_path.stem, timestamp |-> now]
    /\ Raise("IOError")
    /\ UNCHANGED <<file_path, api_key, summarize, prompt_template, transcription,
                   summary_text, summary_path, disk, steps, written, transcribeCalls,
                   completeCalls, diskBefore, runs>>
    /\ RFrame

\* The collaborator answers and the prompt is checked before anything is written.
TranscribeThenCheckPrompt ==
    /\ pc = "Transcribing"
    /\ \E now \in clock..MaxClock :
        /\ clock' = now
        /\ base_name' = [stem |-> file_path.stem, timestamp |-> now]
    /\ transcribeCalls' = transcribeCalls + 1
    /\ transcription' \in RunTranscriptions
    /\ IF summarize /\ Strip(prompt_template.chars) = <<>>
       THEN /\ pc' = "Failed"
            /\ error' = "Selected prompt is empty."
            /\ failedAt' = "Summarizing"
            /\ result' = None
            /\ steps' = steps \o <<"WritingArtifacts", "Summarizing">>
       ELSE Goto("WriteTxt") /\ UNCHANGED <<result, error, failedAt>>
    /\ UNCHANGED <<file_path, api_key, summarize, prompt_template, summary_text,
                   summary_path, disk, written, completeCalls, diskBefore, runs>>
    /\ RFrame

\* timestamped_basename, then the transcription collaborator answers.
Transcribe ==
    /\ pc = "Transcribing"
    /\ \E now \in clock..MaxClock :
        /\ clock' = now
        /\ base_name' = [stem |-> file_path.stem, timestamp |-> now]
    /\ transcribeCalls' = transcribeCalls + 1
    /\ transcription' \in RunTranscriptions
    /\ Goto("WriteTxt")
    /\ UNCHANGED <<file_path, api_key, summarize, prompt_template, summary_text,
                   summary_path, result, error, disk, failedAt, written, completeCalls,
                   diskBefore, runs>>
    /\ RFrame

\* The collaborator's error answered by calling it again.
TranscribeRetries ==
    /\ pc = "Transcribing"
    /\ transcribeCalls' = transcribeCalls + 1
    /\ UNCHANGED <<pc, file_path, api_key, summarize, prompt_template, base_name,
                   transcription, summary_text, summary_path, result, error, disk, clock,
                   failedAt, steps, written, completeCalls, diskBefore, runs>>
    /\ RFrame

\* timestamped_basename, then the transcription collaborator raises.
TranscribeRaises ==
    /\ pc = "Transcribing"
    /\ \E now \in clock..MaxClock :
        /\ clock' = now
        /\ base_name' = [stem |-> file_path.stem, timestamp |-> now]
    /\ transcribeCalls' = transcribeCalls + 1
    /\ Raise("CollaboratorError")
    /\ UNCHANGED <<file_path, api_key, summarize, prompt_template, transcription,
                   summary_text, summary_path, disk, steps, written, completeCalls,
                   diskBefore, runs>>
    /\ RFrame

\* write_transcription_outputs: out/ is made and the transcript written.
WriteTxt ==
    /\ pc = "WriteTxt"
    /\ WriteText(OutPath(base_name, ".txt"), TextFile(TxtContent(transcription)))
    /\ Goto("WriteJson")
    /\ UNCHANGED <<file_path, api_key, summarize, prompt_template, base_name, transcription,
                   summary_text, summary_path, result, error, clock, failedAt,
                   transcribeCalls, completeCalls, diskBefore, runs>>
    /\ RFrame

\* write_transcription_outputs: the raw record is written.
WriteJson ==
    /\ pc = "WriteJson"
    /\ WriteText(OutPath(base_name, ".json"), JsonContent(transcription))
    /\ Goto("WriteSrt")
    /\ UNCHANGED <<file_path, api_key, summarize, prompt_template, base_name, transcription,
                   summary_text, summary_path, result, error, clock, failedAt,
                   transcribeCalls, completeCalls, diskBefore, runs>>
    /\ RFrame

\* write_transcription_outputs: the captions are written and it returns.
WriteSrt ==
    /\ pc = "WriteSrt"
    /\ WriteText(OutPath(base_name, ".srt"), TextFile(SrtContent(transcription)))
    /\ Goto(IF summarize THEN "Summarizing" ELSE "Returning")
    /\ UNCHANGED <<file_path, api_key, summarize, prompt_template, base_name, transcription,
                   summary_text, summary_path, result, error, clock, failedAt,
                   transcribeCalls, completeCalls, diskBefore, runs>>
    /\ RFrame

\* The file the code at `at` writes.
PathAt(at) ==
    OutPath(base_name, CASE at = "WriteTxt" -> ".txt"
                         [] at = "WriteJson" -> ".json"
                         [] at = "WriteSrt" -> ".srt"
                         [] OTHER -> "-summary.txt")

\* What a write that failed half-way leaves behind.
PartialFile == [partial |-> TRUE]

\* A filesystem error in mkdir or write_text: it propagates, the file left
\* untouched or, opened already, cut short.
WriteRaises ==
    /\ pc \in {"WriteTxt", "WriteJson", "WriteSrt", "WriteSummary"}
    /\ \/ UNCHANGED disk
       \/ disk' = [f \in DOMAIN disk \cup {PathAt(pc)} |->
                      IF f = PathAt(pc) THEN PartialFile ELSE disk[f]]
    /\ Raise("IOError")
    /\ UNCHANGED <<file_path, api_key, summarize, prompt_template, base_name, transcription,
                   summary_text, summary_path, clock, steps, written,
                   transcribeCalls, completeCalls, diskBefore, runs>>
    /\ RFrame

\* A blank prompt answered by leaving the summary out and going on.
PromptEmptySkipsSummary ==
    /\ pc = "Summarizing"
    /\ Strip(prompt_template.chars) = <<>>
    /\ Goto("Returning")
    /\ UNCHANGED <<file_path, api_key, summarize, prompt_template, base_name, transcription,
                   summary_text, summary_path, result, error, disk, clock, failedAt, written,
                   transcribeCalls, completeCalls, diskBefore, runs>>
    /\ RFrame

\* if summarize: if not prompt_template.strip(): raise
PromptEmpty ==
    /\ pc = "Summarizing"
    /\ Strip(prompt_template.chars) = <<>>
    /\ Raise("Selected prompt is empty.")
    /\ UNCHANGED <<file_path, api_key, summarize, prompt_template, base_name, transcription,
                   summary_text, summary_path, disk, clock, steps, written,
                   transcribeCalls, completeCalls, diskBefore, runs>>
    /\ RFrame

\* summarize_transcript: the completion collaborator answers.
Summarize ==
    /\ pc = "Summarizing"
    /\ Strip(prompt_template.chars) # <<>>
    /\ completeCalls' = completeCalls + 1
    /\ \E output_text \in OutputTexts : summary_text' = Strip(output_text)
    /\ Goto("WriteSummary")
    /\ UNCHANGED <<file_path, api_key, summarize, prompt_template, base_name, transcription,
                   summary_path, result, error, disk, clock, failedAt, written,
                   transcribeCalls, diskBefore, runs>>
    /\ RFrame

\* summarize_transcript: the completion collaborator raises.
SummarizeRaises ==
    /\ pc = "Summarizing"
    /\ Strip(prompt_template.chars) # <<>>
    /\ completeCalls' = completeCalls + 1
    /\ Raise("CollaboratorError")
    /\ UNCHANGED <<file_path, api_key, summarize, prompt_template, base_name, transcription,
                   summary_text, summary_path, disk, clock, steps, written,
                   transcribeCalls, diskBefore, runs>>
    /\ RFrame

\* The summary file is written.
WriteSummary ==
    /\ pc = "WriteSummary"
    /\ summary_path' = OutPath(base_name, "-summary.txt")
    /\ WriteText(summary_path', TextFile(summary_text \o <<NL>>))
    /\ Goto("Returning")
    /\ UNCHANGED <<file_path, api_key, summarize, prompt_template, base_name, transcription,
                   summary_text, result, error, clock, failedAt, transcribeCalls,
                   completeCalls, diskBefore, runs>>
    /\ RFrame

\* return TranscriptionOutputs(...)
Return ==
    /\ pc = "Returning"
    /\ pc' = "Done"
    /\ result' = [transcript_text |-> TranscriptText(transcription),
                  summary_text |-> summary_text,
                  txt_path |-> OutPath(base_name, ".txt"),
                  srt_path |-> OutPath(base_name, ".srt"),
                  json_path |-> OutPath(base_name, ".json"),
                  summary_path |-> summary_path,
                  status_markdown |->
                      IF ~summarize THEN "Transcription complete."
                      ELSE "Transcription and summary complete."]
    /\ UNCHANGED <<file_path, api_key, summarize, prompt_template, base_name, transcription,
                   summary_text, summary_path, error, disk, clock, failedAt, steps, written,
                   transcribeCalls, completeCalls, diskBefore, runs>>
    /\ RFrame

(***************************************************************************)
(* Properties of a run                                                     *)
(***************************************************************************)
Range(seq) == { seq[i] : i \in 1..Len(seq) }

IsPrefix(a, b) == Len(a) <= Len(b) /\ SubSeq(b, 1, Len(a)) = a

\* The run's arguments fail validation.
InvalidInputs ==
    \/ file_path = None
    \/ ~api_key
    \/ ~file_path.exists

BlankPrompt == Strip(prompt_template.chars) = <<>>

\* The three transcription artifacts of this run are on disk as it wrote them.
ArtifactsWritten ==
    /\ base_name # None
    /\ transcription # None
    /\ { OutPath(base_name, ".txt"), OutPath(base_name, ".json"), OutPath(base_name, ".srt") }
           \subseteq (Range(written) \cap DOMAIN disk)
    /\ disk[OutPath(base_name, ".txt")] = TextFile(TxtContent(transcription))
    /\ disk[OutPath(base_name, ".json")] = JsonContent(transcription)
    /\ disk[OutPath(base_name, ".srt")] = TextFile(SrtContent(transcription))

\* C1: a run whose arguments fail validation (no path, no such file, no
\* credential) never leaves Validating except to fail there, writes no file,
\* leaves the disk as it found it and calls neither collaborator.
C1_ValidationFailureDoesNothing ==
    (pc # "Idle" /\ InvalidInputs) =>
        /\ pc \in {"Validating", "Failed"}
        /\ pc = "Failed" => (failedAt = "Validating" /\ result = None /\ error # "")
        /\ written = <<>>
        /\ disk = diskBefore
        /\ transcribeCalls = 0
        /\ completeCalls = 0

\* C1 witness: a run on a missing file, the credential set, has failed while
\* an earlier run's files are on disk.
C1_Witness ==
    /\ pc = "Failed"
    /\ file_path # None
    /\ ~file_path.exists
    /\ api_key
    /\ DOMAIN disk # {}

\* C2: a result is returned only in Done, and then the transcript, caption
\* and raw-record files of the run are written, the summary file is written
\* exactly when summarization was asked for, and summary_path is set exactly
\* then; a failed run returns nothing.
C2_NoPartialSuccess ==
    /\ pc = "Done" =>
        /\ result # None
        /\ error = ""
        /\ ArtifactsWritten
        /\ result.txt_path = OutPath(base_name, ".txt")
        /\ result.srt_path = OutPath(base_name, ".srt")
        /\ result.json_path = OutPath(base_name, ".json")
        /\ (result.summary_path # None) <=> summarize
        /\ summarize =>
            /\ result.summary_path = OutPath(base_name, "-summary.txt")
            /\ result.summary_path \in Range(written) \cap DOMAIN disk
            /\ disk[result.summary_path] = TextFile(result.summary_text \o <<NL>>)
            /\ completeCalls = 1
        /\ ~summarize => OutPath(base_name, "-summary.txt") \notin Range(written)
    /\ pc # "Done" => result = None
    /\ pc = "Failed" => error # ""

\* C2 witness: a run with summarization has returned its result.
C2_Witness ==
    /\ pc = "Done"
    /\ summarize
    /\ Len(written) = 4

\* C3: with summarization asked for and a blank prompt, a run that got
\* through transcription fails with the empty-prompt error, and when it does
\* the transcript, caption and raw-record files of the run are on disk, the
\* completion collaborator has not been called and no summary file is written.
C3_BlankPromptFailsAfterArtifacts ==
    /\ error = "Selected prompt is empty." =>
        /\ pc = "Failed"
        /\ summarize /\ BlankPrompt
        /\ ArtifactsWritten
        /\ Len(written) = 3
        /\ OutPath(base_name, "-summary.txt") \notin Range(written)
        /\ completeCalls = 0
        /\ result = None
    /\ (summarize /\ BlankPrompt) =>
        /\ pc \notin {"WriteSummary", "Returning", "Done"}
        /\ (pc = "Failed" /\ failedAt = "Summarizing") => error = "Selected prompt is empty."

\* C3 witness: the run has failed on the blank prompt with its captions on disk.
C3_Witness ==
    /\ pc = "Failed"
    /\ error = "Selected prompt is empty."
    /\ OutPath(base_name, ".srt") \in DOMAIN disk

\* C4 as stated: a run with summarization asked for and a blank prompt fails
\* in Validating: the transcription collaborator is never called and nothing
\* is written.
C4_BlankPromptFailsInValidating ==
    (pc # "Idle" /\ summarize /\ BlankPrompt) =>
        /\ pc \in {"Validating", "Failed"}
        /\ transcribeCalls = 0
        /\ written = <<>>

\* C4 amended: the blank-prompt check belongs to the Summarizing step: the
\* empty-prompt error is raised only there, after Validating, Transcribing and
\* WritingArtifacts were entered and the transcription collaborator was called
\* once; a run that fails in Validating fails on its path, file or credential.
C4_BlankPromptFailsInSummarizing ==
    /\ error = "Selected prompt is empty." =>
        /\ failedAt = "Summarizing"
        /\ steps = <<"Validating", "Transcribing", "WritingArtifacts", "Summarizing">>
        /\ transcribeCalls = 1
    /\ (pc = "Failed" /\ failedAt = "Validating") =>
        /\ InvalidInputs
        /\ error \in { "Please upload an audio file to transcribe.",
                       "OPENAI_API_KEY environment variable is not set.",
                       "Uploaded file is unavailable. Please try again." }

\* C4 witness: a run with valid arguments and a blank prompt has called the
\* transcription collaborator and failed in Summarizing.
C4_Witness ==
    /\ pc = "Failed"
    /\ failedAt = "Summarizing"
    /\ summarize /\ BlankPrompt
    /\ transcribeCalls = 1

\* The steps of a run, in order.
StepOrder ==
    IF summarize
    THEN <<"Validating", "Transcribing", "WritingArtifacts", "Summarizing", "Done">>
    ELSE <<"Validating", "Transcribing", "WritingArtifacts", "Done">>

\* What the run wrote to f.
ContentOf(f) ==
    CASE f.suffix = ".txt" -> TextFile(TxtContent(transcription))
      [] f.suffix = ".json" -> JsonContent(transcription)
      [] f.suffix = ".srt" -> TextFile(SrtContent(transcription))
      [] OTHER -> TextFile(summary_text \o <<NL>>)

C10_State ==
    /\ pc # "Idle" => IsPrefix(steps, StepOrder)
    /\ (pc \notin {"Idle", "Failed"}) => steps[Len(steps)] = StepOf(pc)
    /\ transcribeCalls <= 1
    /\ completeCalls <= 1
    /\ Cardinality(Range(written)) = Len(written)
    /\ \A f \in Range(written) : f \in DOMAIN disk /\ disk[f] = ContentOf(f)
    /\ pc = "Failed" => failedAt \in Range(steps)

C10_Step ==
    /\ \A f \in DOMAIN disk : f \in DOMAIN disk'
    /\ runs' = runs =>
        /\ IsPrefix(steps, steps') /\ IsPrefix(written, written')
        /\ transcribeCalls' >= transcribeCalls /\ completeCalls' >= completeCalls
    /\ pc = "Failed" =>
        /\ disk' = disk
        /\ runs' = runs =>
            /\ written' = written
            /\ transcribeCalls' = transcribeCalls
            /\ completeCalls' = completeCalls

\* C10: in every run the steps are entered at most once each and in the order
\* Validating, Transcribing, WritingArtifacts, Summarizing (only when asked
\* for), Done; each collaborator is called at most once and no file written
\* twice; once the run has failed it writes nothing and calls nothing; and no
\* file on disk is ever removed.
C10_OnceInOrderNoRollback == [](C10_State) /\ [][C10_Step]_vars

\* C10 witness: a run failed while writing the caption file, with the
\* transcript and raw-record files it wrote before still on disk.
C10_Witness ==
    /\ pc = "Failed"
    /\ failedAt = "WritingArtifacts"
    /\ Len(written) = 2
    /\ Range(written) \subseteq DOMAIN disk

(***************************************************************************)
(* Specifications                                                          *)
(***************************************************************************)
\* The timestamp formatter on its own.
InitTs == TsInit /\ WIdle /\ SIdle /\ LIdle /\ RIdle
NextTs == FormatTimestamps
SpecTs == InitTs /\ [][NextTs]_vars

\* The artifact writer on its own.
InitWriter == WInit /\ TsIdle /\ SIdle /\ LIdle /\ RIdle
NextWriter == WriteTranscriptionOutputs
SpecWriter == InitWriter /\ [][NextWriter]_vars

\* The summarizer on its own.
InitSummarizer == SInit /\ TsIdle /\ WIdle /\ LIdle /\ RIdle
NextSummarizer == SummarizeTranscript \/ SummarizeTranscriptRaises
SpecSummarizer == InitSummarizer /\ [][NextSummarizer]_vars

\* One caller of the prompt library at a time.
InitLibrary == LInit /\ TsIdle /\ WIdle /\ SIdle /\ RIdle
NextLibrary ==
    \/ OnPromptSave(1)
    \/ EnsureExists(1)
    \/ EnsureSeed(1)
    \/ EnsureLoad(1)
    \/ SavePromptWrite(1)
SpecLibrary == InitLibrary /\ [][NextLibrary]_vars

\* Callers of the prompt library interleaving (concurrent sessions).
NextRace ==
    \E p \in Procs :
        \/ OnPromptSave(p)
        \/ EnsureExists(p)
        \/ EnsureSeed(p)
        \/ EnsureLoad(p)
        \/ SavePromptWrite(p)
SpecRace == InitLibrary /\ [][NextRace]_vars

\* Runs of transcribe_file, one after the other.
InitRun == RInit /\ TsIdle /\ WIdle /\ SIdle /\ LIdle
NextRun ==
    \/ TranscribeFileCall
    \/ Validate
    \/ OpenRaises
    \/ Transcribe
    \/ TranscribeRaises
    \/ WriteTxt
    \/ WriteJson
    \/ WriteSrt
    \/ WriteRaises
    \/ PromptEmpty
    \/ Summarize
    \/ SummarizeRaises
    \/ WriteSummary
    \/ Return
SpecRun == InitRun /\ [][NextRun]_vars

====
